---- MODULE Spec2Model ----
(***************************************************************************)
(* Scam Report Hub: the report store, the moderation actions of the        *)
(* FastAPI application (src/app/main.py, src/app/models.py) and the        *)
(* attachment/audit and link-extraction pages of the Streamlit             *)
(* application (src/legacy_streamlit_app.py).                              *)
(*                                                                         *)
(* Both applications work on one database: tables reports, attachments,    *)
(* report_links and report_audit.  A row of reports carries the columns    *)
(* of both schemas; each handler reads and writes only the columns its     *)
(* own code names.                                                         *)
(*                                                                         *)
(* Representation.  Values the code only compares for equality are TLA+    *)
(* strings ("sms", "flag").  Values the code searches or scans (message    *)
(* text, LIKE patterns, URLs) are sequences of one-character strings.      *)
(* Instants are naturals read from the clock `now`.                        *)
(***************************************************************************)
EXTENDS Integers, Sequences, FiniteSets, TLC

\* ------------------------------------------------------------------ bounds
MaxReports == 2
MaxTime == 1
MaxAttachments == 1
MaxAudit == 2
MaxRuns == 3
BigDatasetSize == 210

\* --------------------------------------------------------- absent values
\* SQL NULL / Python None of a Text column compared by equality.
NoneStr == "<None>"
\* SQL NULL / Python None of a Text column that is searched.
NoneText == <<"<None>">>
\* SQL NULL / Python None of a DateTime column.
NoTime == -1
\* No primary key (a request that names no row).
NoId == 0

\* The one account require_admin lets through.
ADMIN_USER == "admin"

VARIABLES
    reports,       \* table reports: sequence of rows, reports[i].id = i
    attachments,   \* table attachments: sequence of rows
    report_audit,  \* table report_audit: sequence of rows in insertion order
    report_links,  \* table report_links: sequence of rows in insertion order
    now,           \* the clock
    request,       \* the request a handler served last
    response,      \* what it returned
    page,          \* the "Attachment & Audit" page of each Streamlit session
    admin,         \* the admin_action requests being served side by side
    base,          \* table reports as it was when the first of them began
    extraction,    \* what the "Extract Links" page showed after its last run
    conversion,    \* the last calls of the two timezone helpers
    runs           \* the "Extract Links" runs of the Streamlit sessions, step by step

vars == <<reports, attachments, report_audit, report_links, now, request, response,
          page, admin, base, extraction, conversion, runs>>

\* What the handlers of src/app/main.py, served one at a time, never touch.
legacy_state == <<report_links, page, admin, base, extraction, conversion, runs>>

\* What the pages of src/legacy_streamlit_app.py other than "Extract Links"
\* never touch.
http_state == <<request, response, admin, base, extraction, conversion, runs>>

\* ------------------------------------------------------------- text helpers
Min(a, b) == IF a < b THEN a ELSE b

UpperToLower ==
    [c \in {"A","B","C","D","E","F","G","H","I","J","K","L","M","N","O","P","Q",
            "R","S","T","U","V","W","X","Y","Z"} |->
        CASE c = "A" -> "a" [] c = "B" -> "b" [] c = "C" -> "c" [] c = "D" -> "d"
          [] c = "E" -> "e" [] c = "F" -> "f" [] c = "G" -> "g" [] c = "H" -> "h"
          [] c = "I" -> "i" [] c = "J" -> "j" [] c = "K" -> "k" [] c = "L" -> "l"
          [] c = "M" -> "m" [] c = "N" -> "n" [] c = "O" -> "o" [] c = "P" -> "p"
          [] c = "Q" -> "q" [] c = "R" -> "r" [] c = "S" -> "s" [] c = "T" -> "t"
          [] c = "U" -> "u" [] c = "V" -> "v" [] c = "W" -> "w" [] c = "X" -> "x"
          [] c = "Y" -> "y" [] c = "Z" -> "z"]

Lower(c) == IF c \in DOMAIN UpperToLower THEN UpperToLower[c] ELSE c

\* SQL LIKE on positions: does s[i..] match p[j..]?  '%' any run, '_' any one
\* character, every other character itself, case-insensitively (ILIKE).
RECURSIVE LikeFrom(_, _, _, _)
LikeFrom(s, i, p, j) ==
    IF j > Len(p) THEN i > Len(s)
    ELSE IF p[j] = "%"
        THEN LikeFrom(s, i, p, j + 1) \/ (i <= Len(s) /\ LikeFrom(s, i + 1, p, j))
    ELSE /\ i <= Len(s)
         /\ (p[j] = "_" \/ Lower(s[i]) = Lower(p[j]))
         /\ LikeFrom(s, i + 1, p, j + 1)

\* column.ilike(like): NULL never matches.
ilike(column, like) == column # NoneText /\ LikeFrom(column, 1, like, 1)

\* f"%{q}%"
LikePattern(q) == <<"%">> \o q \o <<"%">>

\* ------------------------------------------------------------ submit_report
\* The forms a reporter posts: required report_type and message_content,
\* everything else optional ("" when the field is left empty).
ValidIso == "2024-03-10T02:30:00"

Forms ==
    { [report_type |-> "sms", source_from |-> <<"+","1","5">>, subject |-> <<>>,
       message_content |-> <<"W","i","n">>, received_at |-> ValidIso,
       reporter_name |-> "", reporter_contact |-> "ann@x.org"],
      [report_type |-> "email", source_from |-> <<>>, subject |-> <<"w","i","r","e">>,
       message_content |-> <<"P","a","y">>, received_at |-> "yesterday",
       reporter_name |-> "Ann", reporter_contact |-> ""] }

\* datetime.fromisoformat: the instant a well-formed string denotes; ValueError
\* (reported as NoTime by the caller) for anything else.
IsIsoFormat(s) == s = ValidIso
fromisoformat(s) == 0

\* `x or None` for an equality-compared string and for a searched text.
OrNoneStr(s) == IF s = "" THEN NoneStr ELSE s
OrNoneText(s) == IF s = <<>> THEN NoneText ELSE s

\* Mutant of NewReport: the optional fields stored as the form gives them.
NewReport_EmptyKept(id, form, t) ==
    [ id |-> id,
      report_type |-> form.report_type,
      source_from |-> form.source_from,
      subject |-> form.subject,
      message_content |-> form.message_content,
      received_at |-> IF form.received_at # "" /\ IsIsoFormat(form.received_at)
                         THEN fromisoformat(form.received_at) ELSE NoTime,
      reporter_name |-> form.reporter_name,
      reporter_contact |-> form.reporter_contact,
      suggested_classification |-> "unclassified",
      classification |-> "unclassified",
      is_verified |-> FALSE,
      is_flagged |-> FALSE,
      flag_reason |-> NoneStr,
      flagged_on |-> NoTime,
      flagged_by |-> NoneStr,
      created_on |-> t,
      updated_on |-> t,
      deleted |-> FALSE,
      deleted_on |-> NoTime,
      received_at_tz |-> NoneStr,
      contain_link |-> FALSE,
      ocr_preview |-> NoneText ]

\* Report(...) as the INSERT stores it: the given columns, the server
\* defaults of models.py for the rest, NULL where there is no default.
NewReport(id, form, t) ==
    [ id |-> id,
      report_type |-> form.report_type,
      source_from |-> OrNoneText(form.source_from),
      subject |-> OrNoneText(form.subject),
      message_content |-> form.message_content,
      received_at |-> IF form.received_at # "" /\ IsIsoFormat(form.received_at)
                         THEN fromisoformat(form.received_at) ELSE NoTime,
      reporter_name |-> OrNoneStr(form.reporter_name),
      reporter_contact |-> OrNoneStr(form.reporter_contact),
      suggested_classification |-> "unclassified",
      classification |-> "unclassified",
      is_verified |-> FALSE,
      is_flagged |-> FALSE,
      flag_reason |-> NoneStr,
      flagged_on |-> NoTime,
      flagged_by |-> NoneStr,
      created_on |-> t,
      updated_on |-> t,
      deleted |-> FALSE,
      deleted_on |-> NoTime,
      received_at_tz |-> NoneStr,
      contain_link |-> FALSE,
      ocr_preview |-> NoneText ]

\* Attachment(...) as the INSERT stores it.
NewAttachment(id, report_id, t) ==
    [ id |-> id, report_id |-> report_id, created_on |-> t, deleted |-> FALSE ]

NoRequest ==
    [ handler |-> "none", report_id |-> NoId, action |-> "", reason |-> "",
      q |-> NoneText, report_type |-> NoneStr, attachment_id |-> NoId,
      status |-> "", show_deleted |-> 0, page |-> 0 ]

NoResponse ==
    [ kind |-> "none", url |-> "", reports |-> <<>>, attachments |-> {},
      file |-> NoId, page |-> 0, total_pages |-> 0, total |-> 0,
      total_all |-> 0, total_flagged |-> 0, total_deleted |-> 0 ]

Redirect(url) == [NoResponse EXCEPT !.kind = "redirect", !.url = url]

\* POST /submit
submit_report(form, with_file) ==
    /\ Len(reports) < MaxReports
    /\ with_file => Len(attachments) < MaxAttachments
    /\ LET id == Len(reports) + 1 IN
        /\ reports' = Append(reports, NewReport(id, form, now))
        /\ attachments' =
              IF with_file
              THEN Append(attachments, NewAttachment(Len(attachments) + 1, id, now))
              ELSE attachments
    /\ request' = [NoRequest EXCEPT !.handler = "submit_report"]
    /\ response' = Redirect("/")
    /\ UNCHANGED <<report_audit, now, legacy_state>>

\* ------------------------------------------------------------- admin_action
\* The columns models.py maps on Report: the ORM flushes these and no others.
MappedColumns ==
    { "report_type", "source_from", "subject", "message_content", "received_at",
      "reporter_name", "reporter_contact", "suggested_classification",
      "classification", "is_verified", "is_flagged", "flag_reason", "flagged_on",
      "flagged_by", "created_on", "updated_on", "deleted" }

\* Mutant of admin_action_assign: flagging a flagged report keeps the first
\* reason, time and flagger.
admin_action_assign_KeepFirstFlag(report, action, reason, admin_user, t) ==
    IF action = "flag" THEN
        IF report.is_flagged THEN report
        ELSE [report EXCEPT !.is_flagged = TRUE,
                            !.flag_reason = IF reason # "" THEN reason ELSE "flagged by admin",
                            !.flagged_on = t,
                            !.flagged_by = admin_user]
    ELSE IF action = "unflag" THEN
        [report EXCEPT !.is_flagged = FALSE,
                       !.flag_reason = NoneStr,
                       !.flagged_on = NoTime,
                       !.flagged_by = NoneStr]
    ELSE IF action = "delete" THEN
        [report EXCEPT !.deleted = TRUE, !.deleted_on = t]
    ELSE report

\* Mutant of admin_action_assign: unflag clears the flag and leaves the
\* reason, the time and the flagger.
admin_action_assign_UnflagKeepsReason(report, action, reason, admin_user, t) ==
    IF action = "flag" THEN
        [report EXCEPT !.is_flagged = TRUE,
                       !.flag_reason = IF reason # "" THEN reason ELSE "flagged by admin",
                       !.flagged_on = t,
                       !.flagged_by = admin_user]
    ELSE IF action = "unflag" THEN
        [report EXCEPT !.is_flagged = FALSE]
    ELSE IF action = "delete" THEN
        [report EXCEPT !.deleted = TRUE, !.deleted_on = t]
    ELSE report

\* Mutant of admin_action_assign: delete also takes the flag off.
admin_action_assign_DeleteUnflags(report, action, reason, admin_user, t) ==
    IF action = "flag" THEN
        [report EXCEPT !.is_flagged = TRUE,
                       !.flag_reason = IF reason # "" THEN reason ELSE "flagged by admin",
                       !.flagged_on = t,
                       !.flagged_by = admin_user]
    ELSE IF action = "unflag" THEN
        [report EXCEPT !.is_flagged = FALSE,
                       !.flag_reason = NoneStr,
                       !.flagged_on = NoTime,
                       !.flagged_by = NoneStr]
    ELSE IF action = "delete" THEN
        [report EXCEPT !.deleted = TRUE, !.deleted_on = t,
                       !.is_flagged = FALSE,
                       !.flag_reason = NoneStr,
                       !.flagged_on = NoTime,
                       !.flagged_by = NoneStr]
    ELSE report

\* The attribute assignments of admin_action on the loaded object.
admin_action_assign(report, action, reason, admin_user, t) ==
    IF action = "flag" THEN
        [report EXCEPT !.is_flagged = TRUE,
                       !.flag_reason = IF reason # "" THEN reason ELSE "flagged by admin",
                       !.flagged_on = t,
                       !.flagged_by = admin_user]
    ELSE IF action = "unflag" THEN
        [report EXCEPT !.is_flagged = FALSE,
                       !.flag_reason = NoneStr,
                       !.flagged_on = NoTime,
                       !.flagged_by = NoneStr]
    ELSE IF action = "delete" THEN
        [report EXCEPT !.deleted = TRUE, !.deleted_on = t]
    ELSE report

\* db.commit(): the unit of work writes, in one UPDATE of the row, every mapped
\* column whose value differs from the value loaded, and updated_on = now()
\* (onupdate); with no such column it writes nothing.
Flush(row, loaded, obj, t) ==
    LET dirty == {c \in MappedColumns : obj[c] # loaded[c]} IN
    IF dirty = {} THEN row
    ELSE [c \in DOMAIN row |->
            IF c \in dirty THEN obj[c]
            ELSE IF c = "updated_on" THEN t
            ELSE row[c]]

ReportIds == 1..(MaxReports + 1)
Actions == {"flag", "unflag", "delete", "verify"}
Reasons == {"", "phishing"}

\* Mutant of NoTarget: only a missing row stops the action.
NoTarget_MissingOnly(report_id) ==
    report_id \notin DOMAIN reports

\* `not report or report.deleted`: db.get found no row, or a deleted one.
NoTarget(report_id) ==
    report_id \notin DOMAIN reports \/ reports[report_id].deleted

\* POST /admin/action, run from db.get to db.commit without interruption.
admin_action(report_id, action, reason) ==
    /\ request' = [NoRequest EXCEPT !.handler = "admin_action", !.report_id = report_id,
                                     !.action = action, !.reason = reason]
    /\ response' = Redirect("/admin")
    /\ IF NoTarget(report_id)
       THEN UNCHANGED reports
       ELSE LET report == reports[report_id]
                obj == admin_action_assign(report, action, reason, ADMIN_USER, now)
            IN reports' = [reports EXCEPT ![report_id] = Flush(report, report, obj, now)]
    /\ UNCHANGED <<attachments, report_audit, now, legacy_state>>

\* ------------------------------------- admin_action, requests side by side
\* Each request runs admin_action in a worker thread with a session of its
\* own: db.get reads the row, db.commit writes it, and another request's read
\* or write may fall between the two.
AdminSessions == {1, 2}

IdleAdmin ==
    [ pc |-> "idle", report_id |-> NoId, action |-> "", reason |-> "",
      t |-> NoTime, loaded |-> <<>> ]

\* db.get(Report, report_id), the guard, and now = datetime.utcnow().
admin_get(s, report_id, action, reason) ==
    /\ admin[s].pc = "idle"
    /\ admin' = [admin EXCEPT ![s] =
                   [ pc |-> IF NoTarget(report_id) THEN "done" ELSE "loaded",
                     report_id |-> report_id, action |-> action, reason |-> reason,
                     t |-> now,
                     loaded |-> IF NoTarget(report_id) THEN <<>>
                                ELSE reports[report_id] ]]
    /\ base' = IF \A o \in AdminSessions : admin[o].pc = "idle" THEN reports ELSE base
    /\ UNCHANGED <<reports, attachments, report_audit, report_links, now, request,
                   response, page, extraction, conversion, runs>>

\* The assignments on the loaded object and db.commit().
admin_commit(s) ==
    /\ admin[s].pc = "loaded"
    /\ LET a == admin[s]
           obj == admin_action_assign(a.loaded, a.action, a.reason, ADMIN_USER, a.t)
       IN reports' = [reports EXCEPT ![a.report_id] =
                         Flush(reports[a.report_id], a.loaded, obj, now)]
    /\ admin' = [admin EXCEPT ![s].pc = "done", ![s].loaded = <<>>]
    /\ UNCHANGED <<attachments, report_audit, report_links, now, request, response,
                   page, base, extraction, conversion, runs>>

\* Every request sent has been answered; the next ones start afresh.
admin_close ==
    /\ \A s \in AdminSessions : admin[s].pc # "loaded"
    /\ \E s \in AdminSessions : admin[s].pc = "done"
    /\ admin' = [s \in AdminSessions |-> IdleAdmin]
    /\ base' = <<>>
    /\ UNCHANGED <<reports, attachments, report_audit, report_links, now, request,
                   response, page, extraction, conversion, runs>>

\* -------------------------------------------------------------- search_page
\* The constant of .limit(200).
SearchLimit == 200

\* Mutant of SearchWhere: the is_flagged condition left out.
SearchWhere_NoFlagFilter(r, q, report_type) ==
    /\ r.deleted = FALSE
    /\ (report_type # NoneStr /\ report_type # "" /\ report_type # "all")
          => r.report_type = report_type
    /\ (q # NoneText /\ q # <<>>)
          => \/ ilike(r.message_content, LikePattern(q))
             \/ ilike(r.source_from, LikePattern(q))
             \/ ilike(r.subject, LikePattern(q))

\* The WHERE clause of the statement search_page executes.
SearchWhere(r, q, report_type) ==
    /\ r.deleted = FALSE
    /\ r.is_flagged = FALSE
    /\ (report_type # NoneStr /\ report_type # "" /\ report_type # "all")
          => r.report_type = report_type
    /\ (q # NoneText /\ q # <<>>)
          => \/ ilike(r.message_content, LikePattern(q))
             \/ ilike(r.source_from, LikePattern(q))
             \/ ilike(r.subject, LikePattern(q))

\* ORDER BY created_on DESC: every order of the rows of `ids` the database may
\* return (rows created at the same instant come in either order).
OrderByCreatedDesc(ids) ==
    { s \in [1..Cardinality(ids) -> ids] :
        /\ \A i, j \in DOMAIN s : i # j => s[i] # s[j]
        /\ \A i, j \in DOMAIN s :
              i < j => reports[s[i]].created_on >= reports[s[j]].created_on }

\* LIMIT n
Limit(s, n) == SubSeq(s, 1, Min(Len(s), n))

Max(a, b) == IF a > b THEN a ELSE b

RECURSIVE OrdersBetween(_, _, _)
\* The orders, latest first, of the rows of `ids`, all created from instant
\* lo to instant hi: the rows of the later half of the interval, then those
\* of the earlier half; rows of one instant come in any order.
OrdersBetween(ids, lo, hi) ==
    IF ids = {} THEN {<<>>}
    ELSE IF lo >= hi
        THEN { p \in [1..Cardinality(ids) -> ids] :
                 \A i, j \in DOMAIN p : i # j => p[i] # p[j] }
    ELSE LET mid == (lo + hi) \div 2
             late == {i \in ids : reports[i].created_on > mid}
         IN { p \o s : p \in OrdersBetween(late, mid + 1, hi),
                       s \in OrdersBetween(ids \ late, lo, mid) }

\* ORDER BY created_on DESC, as OrderByCreatedDesc, for tables of any size.
OrdersByCreatedDesc(ids) ==
    LET instants == {reports[i].created_on : i \in ids} IN
    IF ids = {} THEN {<<>>}
    ELSE OrdersBetween(ids,
                       CHOOSE t \in instants : \A u \in instants : t <= u,
                       CHOOSE t \in instants : \A u \in instants : u <= t)

Queries == { NoneText, <<"+","1">>, <<"p","A","Y">> }
TypeFilters == { NoneStr, "all", "sms" }

\* Mutant of search_page: LIMIT applied to the visible reports before the
\* type and text conditions.
search_page_LimitFirst(q, report_type) ==
    /\ \E s \in OrdersByCreatedDesc({i \in DOMAIN reports :
                                       /\ reports[i].deleted = FALSE
                                       /\ reports[i].is_flagged = FALSE}) :
          LET first == Limit(s, SearchLimit)
              ids == SelectSeq(first, LAMBDA i : SearchWhere(reports[i], q, report_type))
              rows == [i \in DOMAIN ids |-> reports[ids[i]]]
          IN response' = [NoResponse EXCEPT !.kind = "index.html", !.reports = rows]
    /\ request' = [NoRequest EXCEPT !.handler = "search_page", !.q = q,
                                     !.report_type = report_type]
    /\ UNCHANGED <<reports, attachments, report_audit, now, legacy_state>>

\* GET /
search_page(q, report_type) ==
    /\ \E s \in OrdersByCreatedDesc({i \in DOMAIN reports :
                                       SearchWhere(reports[i], q, report_type)}) :
          LET ids == Limit(s, SearchLimit)
              rows == [i \in DOMAIN ids |-> reports[ids[i]]]
              report_ids == {ids[i] : i \in DOMAIN ids}
              listed == IF report_ids = {} THEN {}
                        ELSE { attachments[a] : a \in
                                 { a \in DOMAIN attachments :
                                     /\ attachments[a].report_id \in report_ids
                                     /\ attachments[a].deleted = FALSE } }
          IN response' = [NoResponse EXCEPT !.kind = "index.html",
                                            !.reports = rows,
                                            !.attachments = listed]
    /\ request' = [NoRequest EXCEPT !.handler = "search_page", !.q = q,
                                     !.report_type = report_type]
    /\ UNCHANGED <<reports, attachments, report_audit, now, legacy_state>>

\* --------------------------------------------------------------- admin_page
\* page_size = 25
PageSize == 25

\* Mutant of AdminWhere: the deleted condition left out.
AdminWhere_DeletedShown(r, status, show_deleted, q) ==
    /\ status = "flagged" => r.is_flagged = TRUE
    /\ status = "unflagged" => r.is_flagged = FALSE
    /\ q # <<>> => \/ ilike(r.message_content, LikePattern(q))
                   \/ ilike(r.source_from, LikePattern(q))
                   \/ ilike(r.subject, LikePattern(q))

\* The conjunction of `filters`.
AdminWhere(r, status, show_deleted, q) ==
    /\ show_deleted = 0 => r.deleted = FALSE
    /\ status = "flagged" => r.is_flagged = TRUE
    /\ status = "unflagged" => r.is_flagged = FALSE
    /\ q # <<>> => \/ ilike(r.message_content, LikePattern(q))
                   \/ ilike(r.source_from, LikePattern(q))
                   \/ ilike(r.subject, LikePattern(q))

\* LIMIT n OFFSET k
LimitOffset(s, n, k) == SubSeq(s, k + 1, Min(Len(s), k + n))

AdminStatuses == {"all", "flagged", "unflagged"}
AdminQueries == { <<>>, <<"+","1">> }
AdminPages == {0, 1, 2, 3}

\* GET /admin
admin_page(status, show_deleted, q, page_no) ==
    /\ LET p == Max(page_no, 1)
           matching == {i \in DOMAIN reports :
                          AdminWhere(reports[i], status, show_deleted, q)}
           total == Cardinality(matching)
       IN \E s \in OrdersByCreatedDesc(matching) :
             LET ids == LimitOffset(s, PageSize, (p - 1) * PageSize) IN
             response' =
                [NoResponse EXCEPT
                   !.kind = "admin.html",
                   !.reports = [i \in DOMAIN ids |-> reports[ids[i]]],
                   !.page = p,
                   !.total_pages = Max((total + PageSize - 1) \div PageSize, 1),
                   !.total = total,
                   !.total_all = Len(reports),
                   !.total_flagged =
                       Cardinality({i \in DOMAIN reports : reports[i].is_flagged}),
                   !.total_deleted =
                       Cardinality({i \in DOMAIN reports : reports[i].deleted})]
    /\ request' = [NoRequest EXCEPT !.handler = "admin_page", !.status = status,
                                     !.show_deleted = show_deleted, !.q = q,
                                     !.page = page_no]
    /\ UNCHANGED <<reports, attachments, report_audit, now, legacy_state>>

\* The tables an administrator finds: report number i was submitted at time i
\* and then flagged ("flagged"), deleted ("deleted"), flagged and deleted
\* ("flagged_deleted") or left alone ("plain").
Moderated(row, kind, t) ==
    LET flagged ==
            IF kind \in {"flagged", "flagged_deleted"}
            THEN Flush(row, row,
                       admin_action_assign(row, "flag", "phishing", ADMIN_USER, t), t)
            ELSE row
    IN IF kind \in {"deleted", "flagged_deleted"}
       THEN Flush(flagged, flagged,
                  admin_action_assign(flagged, "delete", "", ADMIN_USER, t), t)
       ELSE flagged

FormNo(i) ==
    IF i % 2 = 1 THEN CHOOSE f \in Forms : f.report_type = "sms"
    ELSE CHOOSE f \in Forms : f.report_type = "email"

Dataset(kinds) ==
    [i \in DOMAIN kinds |-> Moderated(NewReport(i, FormNo(i), i), kinds[i], i)]

\* 3 flagged, 2 flagged and deleted, 5 plain reports.
ScenarioKinds ==
    << "plain", "flagged", "flagged_deleted", "plain", "flagged", "plain",
       "flagged_deleted", "plain", "flagged", "plain" >>

\* More reports than a public search returns: one in fifty flagged, one in
\* fifty deleted.
BigKinds ==
    [i \in 1..BigDatasetSize |->
        IF i % 50 = 0 THEN "flagged" ELSE IF i % 50 = 25 THEN "deleted" ELSE "plain"]

\* One report more than a page holds, the two earliest submitted within one
\* instant of the clock (created_on is the server's now()).
TiedDataset ==
    [i \in 1..(PageSize + 1) |-> NewReport(i, FormNo(i), Max(i, 2))]

AdminDatasets ==
    { Dataset(<<>>),
      TiedDataset,
      Dataset(<<"flagged", "deleted">>),
      Dataset(<<"deleted", "plain", "flagged_deleted">>),
      Dataset(ScenarioKinds),
      Dataset(BigKinds) }

\* The q and report_type of the requests sent over these tables.
ListingQueries == Queries \cup { <<>>, <<"w","I","R","e">> }
ListingTypes == TypeFilters \cup { "", "email" }

\* ------------------------------------------------------ download_attachment
AttachmentIds == 1..(MaxAttachments + 1)

\* Mutant of Served: the parent's is_flagged is not looked at.
Served_IgnoresFlag(attachment_id) ==
    /\ attachment_id \in DOMAIN attachments
    /\ ~attachments[attachment_id].deleted
    /\ LET report_id == attachments[attachment_id].report_id IN
          /\ report_id \in DOMAIN reports
          /\ ~reports[report_id].deleted

\* The two guards of download_attachment: is the file served?
Served(attachment_id) ==
    /\ attachment_id \in DOMAIN attachments
    /\ ~attachments[attachment_id].deleted
    /\ LET report_id == attachments[attachment_id].report_id IN
          /\ report_id \in DOMAIN reports
          /\ ~reports[report_id].deleted
          /\ ~reports[report_id].is_flagged

\* GET /attachments/{attachment_id}
download_attachment(attachment_id) ==
    /\ response' = IF Served(attachment_id)
                   THEN [NoResponse EXCEPT !.kind = "file", !.file = attachment_id]
                   ELSE Redirect("/")
    /\ request' = [NoRequest EXCEPT !.handler = "download_attachment",
                                     !.attachment_id = attachment_id]
    /\ UNCHANGED <<reports, attachments, report_audit, now, legacy_state>>

\* ============================================== src/legacy_streamlit_app.py
\* ------------------------------------------------------ convert_local_to_utc
\* Datetimes are minutes counted from 2024-03-10T00:00.  In America/New_York
\* the clocks go from 02:00 to 03:00 on 2024-03-10 (07:00 UTC) and from 02:00
\* back to 01:00 on 2024-11-03 (06:00 UTC).
SpringForwardUTC == 420
FallBackUTC == 343080
EST == -300
EDT == -240

KnownZones == {"America/New_York", "UTC"}

\* Mutant of UtcOffsetOfLocal: the standard-time offset all year.
UtcOffsetOfLocal_AlwaysEST(tz_name, naive_dt) ==
    IF tz_name = "UTC" THEN 0 ELSE EST

\* ZoneInfo(tz_name).utcoffset of a wall-clock value with fold = 0: in the
\* skipped hour the offset before the change, in the repeated hour the first
\* of the two.
UtcOffsetOfLocal(tz_name, naive_dt) ==
    IF tz_name = "UTC" THEN 0
    ELSE IF naive_dt < SpringForwardUTC + EDT THEN EST
    ELSE IF naive_dt < FallBackUTC + EDT THEN EDT
    ELSE EST

\* Mutant of convert_local_to_utc: a name ZoneInfo raises for yields no
\* instant.
convert_local_to_utc_NoFallback(naive_dt, tz_name) ==
    IF tz_name = NoneStr THEN naive_dt
    ELSE IF tz_name \in KnownZones THEN naive_dt - UtcOffsetOfLocal(tz_name, naive_dt)
    ELSE NoTime

\* convert_local_to_utc: the instant, in minutes.  None takes the value as
\* UTC; so does any name ZoneInfo raises for.
convert_local_to_utc(naive_dt, tz_name) ==
    IF tz_name = NoneStr THEN naive_dt
    ELSE IF tz_name \in KnownZones THEN naive_dt - UtcOffsetOfLocal(tz_name, naive_dt)
    ELSE naive_dt

\* ------------------------------------------------------ convert_utc_to_local
\* ZoneInfo(tz_name).utcoffset of an instant.
UtcOffsetOfInstant(tz_name, utc_dt) ==
    IF tz_name = "UTC" THEN 0
    ELSE IF utc_dt < SpringForwardUTC THEN EST
    ELSE IF utc_dt < FallBackUTC THEN EDT
    ELSE EST

\* Python None where a datetime is expected.
NoDatetime == [utc |-> NoTime, wall |-> NoTime, tz |-> NoneStr]

\* convert_utc_to_local: a datetime as its instant (utc), the wall clock it
\* shows (wall) and the zone it is in (tz).  With a tz_name that is None or
\* empty the function runs off its end and returns None; a name ZoneInfo
\* raises for gives utc_dt back.
convert_utc_to_local(utc_dt, tz_name) ==
    IF utc_dt = NoTime THEN NoDatetime
    ELSE IF tz_name = NoneStr \/ tz_name = "" THEN NoDatetime
    ELSE IF tz_name \in KnownZones
        THEN [utc |-> utc_dt, wall |-> utc_dt + UtcOffsetOfInstant(tz_name, utc_dt),
              tz |-> tz_name]
    ELSE [utc |-> utc_dt, wall |-> utc_dt, tz |-> "UTC"]

\* ------------------------------------------------- the helpers, called alone
\* Wall-clock values, in minutes from 2024-03-10T00:00: the day before the
\* clocks go forward, around and inside the skipped hour (02:00-03:00), later
\* that day, the day after, and around and inside the repeated hour
\* (01:00-02:00 on 2024-11-03).
LocalTimes ==
    { 0 - 1290, 0, 119, 120, 150, 179, 180, 600, 1590,
      342779, 342780, 342810, 342839, 342840, 343000 }

\* Timezone names: two valid ones, None, the empty string, an unknown name.
TzNames == {"America/New_York", "UTC", NoneStr, "", "Mars/Olympus"}

NoConversion ==
    [ naive |-> NoTime, tz |-> NoneStr, utc |-> NoTime,
      shown |-> FALSE, shown_tz |-> NoneStr, local |-> NoDatetime ]

\* utc_dt = convert_local_to_utc(naive_local_dt, user_tz)
call_convert_local_to_utc(naive_dt, tz_name) ==
    /\ conversion' = [NoConversion EXCEPT !.naive = naive_dt, !.tz = tz_name,
                                          !.utc = convert_local_to_utc(naive_dt, tz_name)]
    /\ UNCHANGED <<reports, attachments, report_audit, report_links, now, request,
                   response, page, admin, base, extraction, runs>>

\* local_dt = convert_utc_to_local(utc_dt, tz_name), on the instant the
\* other helper returned last (None before any call).
call_convert_utc_to_local(tz_name) ==
    /\ conversion' = [conversion EXCEPT
                        !.shown = TRUE, !.shown_tz = tz_name,
                        !.local = convert_utc_to_local(conversion.utc, tz_name)]
    /\ UNCHANGED <<reports, attachments, report_audit, report_links, now, request,
                   response, page, admin, base, extraction, runs>>

\* ------------------------------------------------------------------ urlparse
RECURSIVE IndexFrom(_, _, _)
\* The first position >= i of s holding a character of `chars`, else Len(s)+1.
IndexFrom(s, i, chars) ==
    IF i > Len(s) THEN Len(s) + 1
    ELSE IF s[i] \in chars THEN i
    ELSE IndexFrom(s, i + 1, chars)

LowerLetters ==
    {"a","b","c","d","e","f","g","h","i","j","k","l","m","n","o","p","q","r","s",
     "t","u","v","w","x","y","z"}
Letters == LowerLetters \cup DOMAIN UpperToLower
Digits == {"0","1","2","3","4","5","6","7","8","9"}
SchemeChars == Letters \cup Digits \cup {"+", "-", "."}

\* Where the part after "scheme:" begins: urlsplit takes a scheme when the text
\* before the first ':' starts with a letter and holds scheme characters only.
AfterScheme(url) ==
    LET i == IndexFrom(url, 1, {":"}) IN
    IF /\ i <= Len(url)
       /\ i > 1
       /\ url[1] \in Letters
       /\ \A k \in 1..(i - 1) : url[k] \in SchemeChars
    THEN i + 1 ELSE 1

\* urlparse(url).netloc: what follows a leading "//" up to the next '/', '?'
\* or '#'; empty when the rest does not begin with "//".
Netloc(url) ==
    LET b == AfterScheme(url) IN
    IF b + 1 <= Len(url) /\ url[b] = "/" /\ url[b + 1] = "/"
    THEN SubSeq(url, b + 2, IndexFrom(url, b + 2, {"/", "?", "#"}) - 1)
    ELSE <<>>

\* `urlparse(url).netloc or url`
DomainOf(url) == IF Netloc(url) # <<>> THEN Netloc(url) ELSE url

\* A row of report_links as both inserts of the application write it.
NewLink(report_id, url, t) ==
    [ report_id |-> report_id, url |-> url, domain |-> DomainOf(url),
      created_on |-> t, deleted |-> FALSE ]

\* --------------------------------------------------------- "Submit Report"
\* "Win now http://bit.ly/x and www.scam.test/y"
TextTwoLinks ==
    <<"W","i","n"," ","n","o","w"," ","h","t","t","p",":","/","/","b","i","t",".",
      "l","y","/","x"," ","a","n","d"," ","w","w","w",".","s","c","a","m",".","t",
      "e","s","t","/","y">>
\* "a.io or a.io"
TextSameLinkTwice == <<"a",".","i","o"," ","o","r"," ","a",".","i","o">>

\* "see a.io"
TextOneLink == <<"s","e","e"," ","a",".","i","o">>

\* The forms a reporter submits on the Streamlit page.  local is the naive
\* date and time, in minutes (150 = 2024-03-10T02:30).
LegacyForms ==
    { [type |-> "sms", source_from |-> <<"+","1","5">>, subject |-> <<>>,
       message_content |-> TextTwoLinks, local |-> 150, tz |-> "America/New_York",
       contain_link |-> TRUE, link_url |-> <<>>],
      [type |-> "email", source_from |-> <<>>, subject |-> <<"h","i">>,
       message_content |-> TextSameLinkTwice, local |-> 600, tz |-> "UTC",
       contain_link |-> TRUE, link_url |-> <<>>],
      [type |-> "email", source_from |-> <<>>, subject |-> <<>>,
       message_content |-> TextOneLink, local |-> 600, tz |-> "UTC",
       contain_link |-> TRUE, link_url |-> <<"a",".","i","o">>],
      [type |-> "call", source_from |-> <<"+","1","5">>, subject |-> <<>>,
       message_content |-> TextOneLink, local |-> 600, tz |-> "UTC",
       contain_link |-> FALSE, link_url |-> <<>>] }

\* The text-message forms.
PlainForms == {f \in LegacyForms : f.type = "sms"}

\* The payload of the "Submit Report" page as a row of reports.
LegacyReport(id, form, t) ==
    [ NewReport(id, [report_type |-> form.type, source_from |-> form.source_from,
                     subject |-> form.subject, message_content |-> <<>>,
                     received_at |-> "", reporter_name |-> "",
                     reporter_contact |-> ""], t)
      EXCEPT !.message_content = OrNoneText(form.message_content),
             !.received_at = convert_local_to_utc(form.local, form.tz),
             !.received_at_tz = form.tz,
             !.contain_link = form.contain_link ]

\* The "Submit Report" page after Submit: insert_and_return_id of the report,
\* then insert_simple of the link typed into the form.  stored and link_stored
\* say whether the database accepted each insert (an SQLAlchemyError is shown
\* with st.error and the handler goes on).
legacy_submit_report(form, stored, link_stored) ==
    /\ Len(reports) < MaxReports
    /\ LET new_id == Len(reports) + 1 IN
        /\ reports' = IF stored THEN Append(reports, LegacyReport(new_id, form, now))
                      ELSE reports
        /\ report_links' =
              IF stored /\ form.contain_link /\ form.link_url # <<>> /\ link_stored
              THEN Append(report_links, NewLink(new_id, form.link_url, now))
              ELSE report_links
    /\ UNCHANGED <<attachments, report_audit, now, page, http_state>>

\* ----------------------------------------------------- "Attachment & Audit"
\* Each browser session runs the page script on its own; the script's queries
\* and each insert_simple / engine.begin block are transactions of their own,
\* so other sessions' transactions may fall between them.
LegacySessions == {1, 2}

\* The constant of .limit(200) in the page's report query.
PageListLimit == 200

IdlePage ==
    [ pc |-> "idle", options |-> {}, report_id |-> NoId, action |-> "none",
      now_utc |-> NoTime ]

\* The reports the form's selectbox offers: the ids report_rows holds.
PageOptions ==
    LET live == {i \in DOMAIN reports : reports[i].deleted = FALSE}
        s == CHOOSE s \in OrderByCreatedDesc(live) : TRUE
    IN {s[i] : i \in 1..Min(Len(s), PageListLimit)}

\* The script runs up to the form: report_rows is read and the form drawn.
page_render(s) ==
    /\ page[s].pc \in {"idle", "form"}
    /\ page' = [page EXCEPT ![s] = [IdlePage EXCEPT !.pc = "form",
                                                    !.options = PageOptions]]
    /\ UNCHANGED <<reports, attachments, report_audit, report_links, now, http_state>>

PageActions == {"none", "triage", "forward", "delete"}

\* Submit pressed with a report of the form chosen: now_utc is read and, when
\* a file of a type other than "none" is uploaded, the attachment row is
\* inserted (stored: the database accepted it).
page_submit(s, report_id, uploaded, action, stored) ==
    /\ page[s].pc = "form"
    /\ report_id \in page[s].options
    /\ uploaded => Len(attachments) < MaxAttachments
    /\ action # "none" =>
          Len(report_audit) + Cardinality({o \in LegacySessions : page[o].pc = "audit"})
              < MaxAudit
    /\ attachments' =
          IF uploaded /\ stored
          THEN Append(attachments, NewAttachment(Len(attachments) + 1, report_id, now))
          ELSE attachments
    /\ page' = [page EXCEPT ![s] =
                  IF action # "none"
                  THEN [ pc |-> "audit", options |-> {}, report_id |-> report_id,
                         action |-> action, now_utc |-> now ]
                  ELSE IdlePage]
    /\ UNCHANGED <<reports, report_audit, report_links, now, http_state>>

\* A row of report_audit.
NewAudit(report_id, action, t) ==
    [ report_id |-> report_id, action |-> action, created_on |-> t,
      deleted |-> FALSE ]

\* insert_simple(report_audit, ...) of the submit handler.
page_audit(s, stored) ==
    /\ page[s].pc = "audit"
    /\ report_audit' =
          IF stored
          THEN Append(report_audit,
                      NewAudit(page[s].report_id, page[s].action, page[s].now_utc))
          ELSE report_audit
    /\ page' = [page EXCEPT ![s] =
                  IF page[s].action = "delete" THEN [page[s] EXCEPT !.pc = "update"]
                  ELSE IdlePage]
    /\ UNCHANGED <<reports, attachments, report_links, now, http_state>>

\* The UPDATE of the submit handler's delete branch: the row with the chosen
\* id, whatever its columns hold by now.
MarkDeleted(row, t) ==
    [row EXCEPT !.deleted = TRUE, !.deleted_on = t, !.updated_on = t]

\* reports.update()...values(deleted=True, ...) in its own transaction; an
\* SQLAlchemyError is shown with st.error and the handler goes on.
page_update(s, stored) ==
    /\ page[s].pc = "update"
    /\ reports' =
          IF stored
          THEN [reports EXCEPT ![page[s].report_id] =
                    MarkDeleted(reports[page[s].report_id], page[s].now_utc)]
          ELSE reports
    /\ page' = [page EXCEPT ![s] = IdlePage]
    /\ UNCHANGED <<attachments, report_audit, report_links, now, http_state>>

\* ------------------------------------------------------------ extract_urls
\* \s, among the characters the texts hold.
Whitespace == {" ", "\t", "\n", "\r", "\f"}
\* The characters [^\s<>"'\)\]] leaves out.
SchemeStops == Whitespace \cup {"<", ">", "\"", "'", ")", "]"}
\* [a-zA-Z0-9.-]
HostChars == Letters \cup Digits \cup {".", "-"}

RECURSIVE RunEnd(_, _, _, _)
\* Where the longest run from position i of characters that are in `chars`
\* (inside) or not in `chars` (~inside) ends: i - 1 when the run is empty.
RunEnd(s, i, chars, inside) ==
    IF i <= Len(s) /\ ((s[i] \in chars) = inside)
    THEN RunEnd(s, i + 1, chars, inside)
    ELSE i - 1

StartsWith(s, i, p) ==
    /\ i + Len(p) - 1 <= Len(s)
    /\ SubSeq(s, i, i + Len(p) - 1) = p

\* https?://[^\s<>"'\)\]]+ tried at position i: where the match ends, 0 when
\* there is none.
MatchScheme(s, i) ==
    LET b == IF StartsWith(s, i, <<"h","t","t","p","s",":","/","/">>) THEN i + 8
             ELSE IF StartsWith(s, i, <<"h","t","t","p",":","/","/">>) THEN i + 7
             ELSE 0
    IN IF b = 0 THEN 0
       ELSE IF RunEnd(s, b, SchemeStops, FALSE) < b THEN 0
       ELSE RunEnd(s, b, SchemeStops, FALSE)

\* (?:www\.)?[a-zA-Z0-9.-]+\.[a-z]{2,}(?:/[^\s]*)? tried at position i.  "www."
\* is made of host characters, so with or without the optional group the
\* greedy host run gives way back to the last '.' of the run that two
\* lower-case letters follow; the letters after it and the path are taken
\* as far as they go.
MatchBare(s, i) ==
    LET host_end == RunEnd(s, i, HostChars, TRUE)
        dots == { d \in (i + 1)..host_end :
                    /\ s[d] = "."
                    /\ d + 2 <= Len(s)
                    /\ s[d + 1] \in LowerLetters
                    /\ s[d + 2] \in LowerLetters }
    IN IF dots = {} THEN 0
       ELSE LET d == CHOOSE d \in dots : \A o \in dots : o <= d
                tld_end == RunEnd(s, d + 1, LowerLetters, TRUE)
            IN IF tld_end + 1 <= Len(s) /\ s[tld_end + 1] = "/"
               THEN RunEnd(s, tld_end + 2, Whitespace, FALSE)
               ELSE tld_end

RECURSIVE FindAll(_, _)
\* re.findall from position i: the matches from left to right, each search
\* resuming after the match before it.
FindAll(s, i) ==
    IF i > Len(s) THEN <<>>
    ELSE LET e == IF MatchScheme(s, i) # 0 THEN MatchScheme(s, i)
                  ELSE MatchBare(s, i)
         IN IF e = 0 THEN FindAll(s, i + 1)
            ELSE <<SubSeq(s, i, e)>> \o FindAll(s, e + 1)

extract_urls(text) == IF text = <<>> THEN <<>> ELSE FindAll(text, 1)

\* ---------------------------------------------------------- "Extract Links"
\* The constant of .limit(200) in the run's report query.
ExtractLimit == 200

\* `x or ""`
OrEmpty(text) == IF text = NoneText THEN <<>> ELSE text

\* text = (r[1] or "") + "\n" + (r[2] or "")
RowText(r) == OrEmpty(r.message_content) \o <<"\n">> \o OrEmpty(r.ocr_preview)

\* Mutant of existing_urls: column domain selected in place of column url.
existing_urls_ByDomain(links, rid, read_ok) ==
    IF read_ok
    THEN {links[k].domain : k \in {k \in DOMAIN links : links[k].report_id = rid}}
    ELSE {}

\* existing_urls: the urls report_links holds for report rid, as safe_rows
\* returns them (no row when the read fails).
existing_urls(links, rid, read_ok) ==
    IF read_ok
    THEN {links[k].url : k \in {k \in DOMAIN links : links[k].report_id = rid}}
    ELSE {}

RECURSIVE ForUrls(_, _, _, _, _, _, _)
\* `for url in urls:` from token k on.  existing is the set read before the
\* loop; insert_fail holds the <<report, token>> inserts the database refuses.
ForUrls(acc, rid, urls, k, existing, t, insert_fail) ==
    IF k > Len(urls) THEN acc
    ELSE ForUrls(
            IF urls[k] \in existing
            THEN [acc EXCEPT !.skipped = @ + 1]
            ELSE [acc EXCEPT
                    !.links = IF <<rid, k>> \in insert_fail THEN @
                              ELSE Append(@, NewLink(rid, urls[k], t)),
                    !.inserted = @ + 1],
            rid, urls, k + 1, existing, t, insert_fail)

RECURSIVE ForRows(_, _, _, _, _, _)
\* `for r in rows:` from row n on.  read_fail holds the reports whose
\* existing-links read fails.
ForRows(acc, rows, n, t, read_fail, insert_fail) ==
    IF n > Len(rows) THEN acc
    ELSE LET rid == rows[n]
             urls == extract_urls(RowText(reports[rid]))
         IN ForRows(
               IF urls = <<>> THEN acc
               ELSE ForUrls(acc, rid, urls, 1,
                            existing_urls(acc.links, rid, rid \notin read_fail),
                            t, insert_fail),
               rows, n + 1, t, read_fail, insert_fail)

\* n counts the runs; inserted and skipped are the counts st.success shows.
\* rows (the batch), after (both tables when the run ended), quiet (nothing
\* was written between the run before and this one) and previous_rows (the
\* batch of the run before) record the history of the runs.
NoExtraction ==
    [ n |-> 0, inserted |-> 0, skipped |-> 0, rows |-> <<>>,
      after |-> <<>>, quiet |-> FALSE, previous_rows |-> <<>> ]

\* The button "Run extraction".  rows_ok says whether the report query
\* succeeds.
run_extraction(rows_ok, read_fail, insert_fail) ==
    /\ extraction.n < MaxRuns
    /\ \E s \in OrderByCreatedDesc({i \in DOMAIN reports :
                                      /\ reports[i].contain_link = TRUE
                                      /\ reports[i].deleted = FALSE}) :
          LET rows == IF rows_ok THEN Limit(s, ExtractLimit) ELSE <<>>
              out == ForRows([links |-> report_links, inserted |-> 0, skipped |-> 0],
                             rows, 1, now, read_fail, insert_fail)
          IN /\ report_links' = out.links
             /\ extraction' =
                  [ n |-> extraction.n + 1,
                    inserted |-> out.inserted,
                    skipped |-> out.skipped,
                    rows |-> rows,
                    after |-> <<reports, out.links>>,
                    quiet |-> /\ extraction.n > 0
                              /\ extraction.after = <<reports, report_links>>,
                    previous_rows |-> extraction.rows ]
    /\ UNCHANGED <<reports, attachments, report_audit, now, page, request, response,
                   admin, base, conversion, runs>>

\* ------------------------------------------- "Extract Links", side by side
\* Each browser session that clicks "Run extraction" runs the loop on its
\* own; the report query, each existing-links query and each insert_simple
\* are transactions of their own, so the statements of another run may fall
\* between them.
RunSessions == {1, 2}

\* links_before is the number of rows of report_links when the run began.
IdleRun ==
    [ pc |-> "idle", rows |-> <<>>, n |-> 0, urls |-> <<>>, k |-> 0,
      existing |-> {}, inserted |-> 0, skipped |-> 0, links_before |-> 0 ]

\* The button is clicked: rows, _ = safe_rows(stmt); inserted = skipped = 0.
run_start(s) ==
    /\ runs[s].pc = "idle"
    /\ \E o \in OrderByCreatedDesc({i \in DOMAIN reports :
                                      /\ reports[i].contain_link = TRUE
                                      /\ reports[i].deleted = FALSE}) :
          runs' = [runs EXCEPT ![s] =
                     [IdleRun EXCEPT !.pc = "row", !.rows = Limit(o, ExtractLimit),
                                     !.n = 1, !.links_before = Len(report_links)]]
    /\ UNCHANGED <<reports, attachments, report_audit, report_links, now, page,
                   request, response, admin, base, extraction, conversion>>

\* `for r in rows:` down to the existing-links query of the row.
run_row(s) ==
    /\ runs[s].pc = "row"
    /\ runs[s].n <= Len(runs[s].rows)
    /\ LET rid == runs[s].rows[runs[s].n]
           urls == extract_urls(RowText(reports[rid]))
       IN runs' = [runs EXCEPT ![s] =
                     IF urls = <<>>
                     THEN [@ EXCEPT !.n = @ + 1]
                     ELSE [@ EXCEPT !.pc = "url", !.urls = urls, !.k = 1,
                                    !.existing = existing_urls(report_links, rid, TRUE)]]
    /\ UNCHANGED <<reports, attachments, report_audit, report_links, now, page,
                   request, response, admin, base, extraction, conversion>>

\* One turn of `for url in urls:`: the token is skipped or inserted.
run_url(s) ==
    /\ runs[s].pc = "url"
    /\ LET rid == runs[s].rows[runs[s].n]
           url == runs[s].urls[runs[s].k]
           last == runs[s].k = Len(runs[s].urls)
           on == [runs[s] EXCEPT !.k = IF last THEN 0 ELSE @ + 1,
                                 !.pc = IF last THEN "row" ELSE "url",
                                 !.n = IF last THEN @ + 1 ELSE @]
       IN IF url \in runs[s].existing
          THEN /\ runs' = [runs EXCEPT ![s] = [on EXCEPT !.skipped = @ + 1]]
               /\ UNCHANGED report_links
          ELSE /\ report_links' = Append(report_links, NewLink(rid, url, now))
               /\ runs' = [runs EXCEPT ![s] = [on EXCEPT !.inserted = @ + 1]]
    /\ UNCHANGED <<reports, attachments, report_audit, now, page, request, response,
                   admin, base, extraction, conversion>>

\* st.success(...): the run shows its counts.
run_success(s) ==
    /\ runs[s].pc = "row"
    /\ runs[s].n > Len(runs[s].rows)
    /\ runs' = [runs EXCEPT ![s].pc = "done"]
    /\ UNCHANGED <<reports, attachments, report_audit, report_links, now, page,
                   request, response, admin, base, extraction, conversion>>

\* ---------------------------------------------------------------- the clock
Tick ==
    /\ now < MaxTime
    /\ now' = now + 1
    /\ UNCHANGED <<reports, attachments, report_audit, request, response, legacy_state>>

Init ==
    /\ reports = <<>>
    /\ attachments = <<>>
    /\ report_audit = <<>>
    /\ report_links = <<>>
    /\ now = 0
    /\ request = NoRequest
    /\ response = NoResponse
    /\ page = [s \in LegacySessions |-> IdlePage]
    /\ admin = [s \in AdminSessions |-> IdleAdmin]
    /\ base = <<>>
    /\ extraction = NoExtraction
    /\ conversion = NoConversion
    /\ runs = [s \in RunSessions |-> IdleRun]

Next ==
    \/ \E form \in Forms, with_file \in BOOLEAN : submit_report(form, with_file)
    \/ \E report_id \in ReportIds, action \in Actions :
          \E reason \in (IF action = "flag" THEN Reasons ELSE {""}) :
              admin_action(report_id, action, reason)
    \/ \E q \in Queries, report_type \in TypeFilters : search_page(q, report_type)
    \/ \E attachment_id \in AttachmentIds : download_attachment(attachment_id)
    \/ Tick

Spec == Init /\ [][Next]_vars

\* The Streamlit application used from two browser sessions.  The
\* "Attachment & Audit" page reads no content column: the reports it works on
\* come from the forms of PlainForms.
NextLegacy ==
    \/ \E form \in PlainForms, stored \in BOOLEAN, link_stored \in BOOLEAN :
          legacy_submit_report(form, stored, link_stored)
    \/ \E s \in LegacySessions : page_render(s)
    \/ \E s \in LegacySessions, report_id \in DOMAIN reports, uploaded \in BOOLEAN,
          action \in PageActions, stored \in BOOLEAN :
          page_submit(s, report_id, uploaded, action, stored)
    \/ \E s \in LegacySessions, stored \in BOOLEAN : page_audit(s, stored)
    \/ \E s \in LegacySessions, stored \in BOOLEAN : page_update(s, stored)
    \/ Tick

SpecLegacy == Init /\ [][NextLegacy]_vars

\* The FastAPI application serving two admin requests side by side.
\* admin_action reads no content column and no attachment: the reports come
\* from one form, without a file.
ConcForms == {f \in Forms : f.report_type = "sms"}

NextConc ==
    \/ \E form \in ConcForms : submit_report(form, FALSE)
    \/ \E s \in AdminSessions, report_id \in ReportIds, action \in Actions :
          \E reason \in (IF action = "flag" THEN Reasons ELSE {""}) :
              admin_get(s, report_id, action, reason)
    \/ \E s \in AdminSessions : admin_commit(s)
    \/ admin_close
    \/ Tick

SpecConc == Init /\ [][NextConc]_vars

\* The Streamlit application with a store that answers every statement:
\* reports are submitted and the extraction is run, one at a time.
NextExtract ==
    \/ \E form \in LegacyForms : legacy_submit_report(form, TRUE, TRUE)
    \/ run_extraction(TRUE, {}, {})
    \/ Tick

SpecExtract == Init /\ [][NextExtract]_vars

\* The forms whose text holds no URL twice.
DistinctLinkForms == {f \in LegacyForms : f.message_content # TextSameLinkTwice}

\* The inserts a run may attempt: token k of report rid.
InsertPoints ==
    UNION { {<<rid, k>> : k \in DOMAIN extract_urls(RowText(reports[rid]))} :
            rid \in DOMAIN reports }

\* The same pages with a store that may refuse the statements of a run
\* (safe_rows then returns no row, insert_simple returns False): the report
\* query, the existing-links reads of any reports, every insert or none.
NextExtractFail ==
    \/ \E form \in DistinctLinkForms : legacy_submit_report(form, TRUE, TRUE)
    \/ \E rows_ok \in BOOLEAN, read_fail \in SUBSET DOMAIN reports,
          insert_fail \in {{}, InsertPoints} :
          run_extraction(rows_ok, read_fail, insert_fail)
    \/ Tick

SpecExtractFail == Init /\ [][NextExtractFail]_vars

\* Reports are submitted to a store that accepts every statement; then the
\* sessions click "Run extraction", each once, at any time.
NextExtractConc ==
    \/ /\ \A s \in RunSessions : runs[s].pc = "idle"
       /\ \E form \in DistinctLinkForms : legacy_submit_report(form, TRUE, TRUE)
    \/ \E s \in RunSessions : run_start(s)
    \/ \E s \in RunSessions : run_row(s)
    \/ \E s \in RunSessions : run_url(s)
    \/ \E s \in RunSessions : run_success(s)

SpecExtractConc == Init /\ [][NextExtractConc]_vars

\* What a reporter may post: the source, and the subject with the reporter's
\* name and contact, given or left empty; received_at empty, well-formed or
\* not a timestamp.
SubmitForms ==
    { [report_type |-> "sms", source_from |-> sf, subject |-> who.subject,
       message_content |-> <<"W","i","n">>, received_at |-> ra,
       reporter_name |-> who.name, reporter_contact |-> who.contact] :
        sf \in {<<>>, <<"+","1","5">>},
        ra \in {"", ValidIso, "yesterday"},
        who \in { [subject |-> <<>>, name |-> "", contact |-> ""],
                  [subject |-> <<"h","i">>, name |-> "Ann", contact |-> "ann@x.org"] } }

\* POST /submit with each of these forms.
NextSubmit ==
    \/ \E form \in SubmitForms, with_file \in BOOLEAN : submit_report(form, with_file)
    \/ Tick

SpecSubmit == Init /\ [][NextSubmit]_vars

\* The administrator's listing and the public search over the tables of
\* AdminDatasets.
InitAdmin ==
    /\ reports \in AdminDatasets
    /\ attachments = <<>>
    /\ report_audit = <<>>
    /\ report_links = <<>>
    /\ now = 0
    /\ request = NoRequest
    /\ response = NoResponse
    /\ page = [s \in LegacySessions |-> IdlePage]
    /\ admin = [s \in AdminSessions |-> IdleAdmin]
    /\ base = <<>>
    /\ extraction = NoExtraction
    /\ conversion = NoConversion
    /\ runs = [s \in RunSessions |-> IdleRun]

NextAdmin ==
    \/ \E status \in AdminStatuses, show_deleted \in {0, 1}, q \in AdminQueries,
       page_no \in AdminPages :
        admin_page(status, show_deleted, q, page_no)
    \/ \E q \in ListingQueries, report_type \in ListingTypes :
        search_page(q, report_type)

SpecAdmin == InitAdmin /\ [][NextAdmin]_vars

\* The two timezone helpers called with every wall-clock value and name.
NextTime ==
    \/ \E naive_dt \in LocalTimes, tz_name \in TzNames :
          call_convert_local_to_utc(naive_dt, tz_name)
    \/ \E tz_name \in TzNames : call_convert_utc_to_local(tz_name)

SpecTime == Init /\ [][NextTime]_vars

\* ==================================================================== claims
\* ---------------------------------------------------------------- C1
\* C1: whatever text filter q and type filter report_type the public search is
\* asked with, no report it returns is flagged and none is deleted.
C1_PublicSearchHidesFlaggedAndDeleted ==
    request.handler = "search_page" =>
        \A i \in DOMAIN response.reports :
            /\ response.reports[i].is_flagged = FALSE
            /\ response.reports[i].deleted = FALSE
            /\ reports[response.reports[i].id].is_flagged = FALSE
            /\ reports[response.reports[i].id].deleted = FALSE

\* A search with both filters given that returned a report while a flagged
\* report of the same type, which the text filter matches too, was left out.
C1_Witness ==
    /\ request.handler = "search_page"
    /\ request.q = <<"+","1">>
    /\ request.report_type = "sms"
    /\ Len(response.reports) = 1
    /\ \E id \in DOMAIN reports :
          /\ reports[id].is_flagged
          /\ ~reports[id].deleted
          /\ reports[id].report_type = "sms"
          /\ ilike(reports[id].source_from, LikePattern(request.q))

\* This step is admin_action serving the request recorded in request'.
AdminActionStep ==
    /\ request'.handler = "admin_action"
    /\ admin_action(request'.report_id, request'.action, request'.reason)

\* ---------------------------------------------------------------- C2
\* C2: every flag, unflag or delete the admin applies to an existing, not
\* deleted report adds exactly one audit entry, for that report, whose action
\* is the transition.
C2_TransitionWritesOneAuditEntry ==
    [][ ( /\ AdminActionStep
          /\ request'.action \in {"flag", "unflag", "delete"}
          /\ request'.report_id \in DOMAIN reports
          /\ ~reports[request'.report_id].deleted )
        => /\ Len(report_audit') = Len(report_audit) + 1
           /\ report_audit'[Len(report_audit')].report_id = request'.report_id
           /\ report_audit'[Len(report_audit')].action = request'.action ]_vars

\* ---------------------------------------------------------------- C4
\* C4: an admin action on a report that does not exist or is deleted changes no
\* row of any table and answers with the redirect every admin action answers
\* with; a deleted report stays deleted and none of its columns changes again.
C4_ActionOnMissingOrDeletedIsNoOp ==
    [][ /\ AdminActionStep =>
              /\ response' = Redirect("/admin")
              /\ ( \/ request'.report_id \notin DOMAIN reports
                   \/ reports[request'.report_id].deleted )
                    => /\ reports' = reports
                       /\ report_audit' = report_audit
                       /\ attachments' = attachments
                       /\ report_links' = report_links
        /\ \A id \in DOMAIN reports :
              reports[id].deleted => reports'[id] = reports[id] ]_vars

\* A flag request for a deleted report was answered with the redirect and the
\* report is still unflagged.
C4_Witness ==
    /\ request.handler = "admin_action"
    /\ request.action = "flag"
    /\ request.report_id \in DOMAIN reports
    /\ reports[request.report_id].deleted
    /\ ~reports[request.report_id].is_flagged
    /\ response = Redirect("/admin")

\* ---------------------------------------------------------------- C9
\* C9: download_attachment serves a file only for an attachment that is not
\* deleted and whose report exists, is not deleted and is not flagged, and
\* redirects for every attachment of a flagged or deleted report; the public
\* search lists an attachment only under the same conditions.
C9_AttachmentVisibleOnlyWithVisibleParent ==
    /\ request.handler = "download_attachment" =>
          LET a == request.attachment_id
              visible == /\ a \in DOMAIN attachments
                         /\ ~attachments[a].deleted
                         /\ attachments[a].report_id \in DOMAIN reports
                         /\ ~reports[attachments[a].report_id].deleted
                         /\ ~reports[attachments[a].report_id].is_flagged
          IN /\ response.kind = "file" => visible /\ response.file = a
             /\ ~visible => response = Redirect("/")
    /\ request.handler = "search_page" =>
          \A att \in response.attachments :
              /\ ~att.deleted
              /\ att.report_id \in DOMAIN reports
              /\ ~reports[att.report_id].deleted
              /\ ~reports[att.report_id].is_flagged

\* A download request for the attachment of a flagged report was redirected.
C9_Witness ==
    /\ request.handler = "download_attachment"
    /\ request.attachment_id \in DOMAIN attachments
    /\ reports[attachments[request.attachment_id].report_id].is_flagged
    /\ ~reports[attachments[request.attachment_id].report_id].deleted
    /\ response = Redirect("/")

\* ---------------------------------------------------------------- C10
\* C10: flag(reason) on an existing, not deleted report, flagged before or not,
\* leaves it flagged with the reason given ("flagged by admin" for an empty
\* one), flagged_on the time of the call and flagged_by the admin.
C10_FlagSetsReasonTimeAndFlagger ==
    [][ ( /\ AdminActionStep
          /\ request'.action = "flag"
          /\ request'.report_id \in DOMAIN reports
          /\ ~reports[request'.report_id].deleted )
        => LET after == reports'[request'.report_id] IN
           /\ after.is_flagged = TRUE
           /\ after.flag_reason =
                  (IF request'.reason = "" THEN "flagged by admin" ELSE request'.reason)
           /\ after.flagged_on = now
           /\ after.flagged_by = ADMIN_USER ]_vars

\* A flag request without a reason was served at time 1 on a report created
\* at time 0: the report holds the default reason and flagged_on = 1.
C10_Witness ==
    /\ request.handler = "admin_action"
    /\ request.action = "flag"
    /\ request.reason = ""
    /\ request.report_id \in DOMAIN reports
    /\ reports[request.report_id].flag_reason = "flagged by admin"
    /\ reports[request.report_id].flagged_on = 1
    /\ reports[request.report_id].created_on = 0

\* ---------------------------------------------------------------- C3
\* C3: the 'delete' audit entry and deleted = true of a report are never seen
\* one without the other: a report is deleted exactly when the audit trail
\* holds a 'delete' entry for it.
C3_DeleteAuditAndFlagTogether ==
    \A id \in DOMAIN reports :
        reports[id].deleted <=>
            \E i \in DOMAIN report_audit :
                /\ report_audit[i].report_id = id
                /\ report_audit[i].action = "delete"

\* ---------------------------------------------------------------- C5
\* C5: a deleted report carries the time of the delete call that deleted it,
\* a later delete call leaves that time as it is, and no call adds more than
\* one audit entry.
C5_DeleteKeepsFirstTimestamp ==
    [][ /\ \A id \in DOMAIN reports :
              /\ (~reports[id].deleted /\ reports'[id].deleted)
                    => reports'[id].deleted_on # NoTime
              /\ reports[id].deleted
                    => reports'[id].deleted_on = reports[id].deleted_on
        /\ Len(report_audit') <= Len(report_audit) + 1 ]_vars

\* ---------------------------------------------------------------- C6
\* What admin_action leaves in table tbl when it serves request a alone, from
\* db.get to db.commit, with the clock reading a.t.
ServedAlone(tbl, a) ==
    IF a.pc = "idle" \/ a.report_id \notin DOMAIN tbl THEN tbl
    ELSE IF tbl[a.report_id].deleted THEN tbl
    ELSE LET row == tbl[a.report_id]
             obj == admin_action_assign(row, a.action, a.reason, ADMIN_USER, a.t)
         IN [tbl EXCEPT ![a.report_id] = Flush(row, row, obj, a.t)]

\* The columns admin_action assigns.
ModerationColumns == {"is_flagged", "flag_reason", "flagged_on", "flagged_by", "deleted"}

\* C6: when two admin actions issued side by side have both been answered,
\* every report holds, in the columns the actions assign, what serving the two
\* one after the other, in one of the two orders, leaves there.
C6_ConcurrentActionsSerializable ==
    (\A s \in AdminSessions : admin[s].pc = "done") =>
        \E first \in AdminSessions :
            LET second == CHOOSE o \in AdminSessions : o # first
                serial == ServedAlone(ServedAlone(base, admin[first]), admin[second])
            IN \A id \in DOMAIN base : \A c \in ModerationColumns :
                  reports[id][c] = serial[id][c]

\* ---------------------------------------------------------------- C7
\* C7: no report has two link records that are not deleted and hold the same
\* URL string.
C7_NoDuplicateLinkPerReport ==
    \A i, j \in DOMAIN report_links :
        (/\ i < j
         /\ report_links[i].deleted = FALSE
         /\ report_links[j].deleted = FALSE
         /\ report_links[i].report_id = report_links[j].report_id)
        => report_links[i].url # report_links[j].url

\* ---------------------------------------------------------------- C8
RECURSIVE TokenCount(_)
\* The number of URL tokens the texts of the reports of batch `rows` hold.
TokenCount(rows) ==
    IF rows = <<>> THEN 0
    ELSE Len(extract_urls(RowText(reports[Head(rows)]))) + TokenCount(Tail(rows))

\* C8: a run of the extraction that follows another run, with nothing written
\* in between, inserts no link and skips as many tokens as the run before
\* found.
C8_SecondRunInsertsNothing ==
    (extraction.n >= 2 /\ extraction.quiet) =>
        /\ extraction.inserted = 0
        /\ extraction.skipped = TokenCount(extraction.previous_rows)

\* Two reports, one of them holding the same token twice, have been scanned a
\* second time right after the first: three tokens were skipped.
C8_Witness ==
    /\ extraction.n >= 2
    /\ extraction.quiet
    /\ Len(extraction.previous_rows) = 2
    /\ \E k \in DOMAIN extraction.previous_rows :
          reports[extraction.previous_rows[k]].message_content = TextSameLinkTwice
    /\ extraction.inserted = 0
    /\ extraction.skipped = 3

\* ---------------------------------------------------------------- C11
\* The flag columns of a stored report agree with is_flagged.
FlagColumnsAgree(r) ==
    /\ ~r.is_flagged => /\ r.flag_reason = NoneStr
                        /\ r.flagged_on = NoTime
                        /\ r.flagged_by = NoneStr
    /\ r.is_flagged => /\ r.flag_reason \notin {NoneStr, ""}
                       /\ r.flagged_by # NoneStr

\* C11: unflag on an existing, not deleted report leaves it unflagged with
\* flag_reason, flagged_on and flagged_by unset; and after every step of the
\* application serving one request at a time, an unflagged report has the
\* three columns unset and a flagged one has a reason and a flagger.
C11_UnflagClearsAndFlagColumnsAgree ==
    [][ /\ ( /\ AdminActionStep
             /\ request'.action = "unflag"
             /\ request'.report_id \in DOMAIN reports
             /\ ~reports[request'.report_id].deleted )
           => LET after == reports'[request'.report_id] IN
              /\ after.is_flagged = FALSE
              /\ after.flag_reason = NoneStr
              /\ after.flagged_on = NoTime
              /\ after.flagged_by = NoneStr
        /\ \A id \in DOMAIN reports' : FlagColumnsAgree(reports'[id]) ]_vars

\* An unflag request was served on a report that had been flagged: the row
\* was rewritten after its creation and holds no flag column.
C11_Witness ==
    /\ request.handler = "admin_action"
    /\ request.action = "unflag"
    /\ request.report_id \in DOMAIN reports
    /\ ~reports[request.report_id].deleted
    /\ reports[request.report_id].updated_on > reports[request.report_id].created_on
    /\ ~reports[request.report_id].is_flagged
    /\ reports[request.report_id].flag_reason = NoneStr

\* ---------------------------------------------------------------- C12
\* C12: delete on an existing, not yet deleted report leaves the stored row
\* with deleted = true and deleted_on = the time of the call.
C12_DeleteRecordsDeletionTime ==
    [][ ( /\ AdminActionStep
          /\ request'.action = "delete"
          /\ request'.report_id \in DOMAIN reports
          /\ ~reports[request'.report_id].deleted )
        => /\ reports'[request'.report_id].deleted = TRUE
           /\ reports'[request'.report_id].deleted_on = now ]_vars

\* ---------------------------------------------------------------- C13
\* The host portion of a URL token: the token without its "http://" or
\* "https://" and without what follows the host (from the first '/', '?' or
\* '#' on); the token itself when that leaves nothing.
HostPortion(url) ==
    LET b == IF StartsWith(url, 1, <<"h","t","t","p","s",":","/","/">>) THEN 9
             ELSE IF StartsWith(url, 1, <<"h","t","t","p",":","/","/">>) THEN 8
             ELSE 1
        e == IndexFrom(url, b, {"/", "?", "#"}) - 1
    IN IF e >= b THEN SubSeq(url, b, e) ELSE url

\* C13: every link row holds as domain the host portion of its URL; and once
\* a run has scanned a report whose text is
\* "Win now http://bit.ly/x and www.scam.test/y", the report has exactly two
\* links, with the domains "bit.ly" and "www.scam.test".
C13_DomainIsHostPortion ==
    /\ \A k \in DOMAIN report_links :
          report_links[k].domain = HostPortion(report_links[k].url)
    /\ \A n \in DOMAIN extraction.rows :
          reports[extraction.rows[n]].message_content = TextTwoLinks =>
              LET of_report == {k \in DOMAIN report_links :
                                  report_links[k].report_id = extraction.rows[n]}
              IN /\ Cardinality(of_report) = 2
                 /\ {report_links[k].domain : k \in of_report} =
                       { <<"b","i","t",".","l","y">>,
                         <<"w","w","w",".","s","c","a","m",".","t","e","s","t">> }

\* ---------------------------------------------------------------- C14
\* A wall-clock value was converted with America/New_York and the instant
\* converted back with the same name.
RoundTripNewYork ==
    /\ conversion.shown
    /\ conversion.naive # NoTime
    /\ conversion.tz = "America/New_York"
    /\ conversion.shown_tz = "America/New_York"

\* The wall-clock values no clock in New York showed: 02:00 to 02:59 on
\* 2024-03-10.
SkippedHour == {t \in LocalTimes : SpringForwardUTC + EST <= t /\ t < SpringForwardUTC + EDT}

\* C14 as stated: the round trip reproduces every wall-clock value, those
\* inside the skipped hour included.
C14_RoundTripEveryWallClock ==
    RoundTripNewYork => conversion.local.wall = conversion.naive

\* C14, amended: the round trip reproduces every wall-clock value that exists
\* in America/New_York (every value outside the skipped hour), on a date
\* with a transition, inside the repeated hour, and on a date without one.
C14_RoundTripExistingWallClock ==
    (RoundTripNewYork /\ conversion.naive \notin SkippedHour)
        => conversion.local.wall = conversion.naive

\* 01:30 on 2024-11-03, inside the repeated hour, went there and back.
C14_Witness ==
    /\ RoundTripNewYork
    /\ conversion.naive = 342810
    /\ conversion.utc = 343050
    /\ conversion.local.wall = 342810

\* ---------------------------------------------------------------- C15
\* C15: convert_utc_to_local returns unset for an unset instant and, for a set
\* instant with a name that is invalid, None or empty, the instant unmodified.
C15_DisplayFallsBackToInstant ==
    conversion.shown =>
        /\ conversion.utc = NoTime => conversion.local = NoDatetime
        /\ (conversion.utc # NoTime /\ conversion.shown_tz \in {NoneStr, "", "Mars/Olympus"})
              => /\ conversion.local.utc = conversion.utc
                 /\ conversion.local.wall = conversion.utc

\* ---------------------------------------------------------------- C16
\* C16: convert_local_to_utc always returns an instant, and with a name that
\* is None, empty or unknown the instant is the wall-clock value unchanged.
C16_ToAbsoluteFallsBackToNaive ==
    conversion.naive # NoTime =>
        /\ conversion.utc # NoTime
        /\ conversion.tz \in {NoneStr, "", "Mars/Olympus"}
              => conversion.utc = conversion.naive

\* 02:30 was converted with an unknown name and came back as 02:30 UTC.
C16_Witness ==
    /\ conversion.naive = 150
    /\ conversion.tz = "Mars/Olympus"
    /\ conversion.utc = 150

\* ---------------------------------------------------------------- C17
\* The reports the listing is to return for a status and show_deleted, with
\* no text filter.
AdminExpected(status, show_deleted) ==
    { i \in DOMAIN reports :
        /\ show_deleted # 0 \/ ~reports[i].deleted
        /\ CASE status = "flagged" -> reports[i].is_flagged
             [] status = "unflagged" -> ~reports[i].is_flagged
             [] OTHER -> TRUE }

\* C17: the admin listing without a text filter holds, on its first page,
\* exactly the reports that are not deleted (all reports when show_deleted is
\* set) and that agree with status 'flagged' or 'unflagged', total counts
\* them; on 3 flagged, 2 flagged and deleted and 5 plain reports, status
\* 'flagged' with show_deleted = 0 returns the 3 flagged ones and total = 3.
C17_AdminListingFilters ==
    (request.handler = "admin_page" /\ request.q = <<>>) =>
        LET expected == AdminExpected(request.status, request.show_deleted)
            listed == {response.reports[i].id : i \in DOMAIN response.reports}
        IN /\ response.total = Cardinality(expected)
           /\ listed \subseteq expected
           /\ (request.page <= 1 /\ Cardinality(expected) <= PageSize)
                 => listed = expected /\ Len(response.reports) = Cardinality(expected)
           /\ ( /\ reports = Dataset(ScenarioKinds)
                /\ request.status = "flagged"
                /\ request.show_deleted = 0
                /\ request.page <= 1 )
                 => /\ Len(response.reports) = 3
                    /\ response.total = 3
                    /\ \A i \in DOMAIN response.reports :
                          /\ response.reports[i].is_flagged
                          /\ ~response.reports[i].deleted

\* The listing of the flagged reports among 3 flagged, 2 flagged and deleted
\* and 5 plain ones was served.
C17_Witness ==
    /\ request.handler = "admin_page"
    /\ request.q = <<>>
    /\ request.status = "flagged"
    /\ request.show_deleted = 0
    /\ request.page = 1
    /\ Len(reports) = 10
    /\ Cardinality({i \in DOMAIN reports : reports[i].is_flagged /\ reports[i].deleted}) = 2
    /\ Len(response.reports) = 3
    /\ response.total = 3

\* ---------------------------------------------------------------- C18
\* Text holds q, letter case apart.
Contains(text, q) ==
    /\ text # NoneText
    /\ \E k \in 0..(Len(text) - Len(q)) :
          \A m \in 1..Len(q) : Lower(text[k + m]) = Lower(q[m])

\* The reports a public search for q and report_type is to find.
SearchExpected(q, report_type) ==
    { i \in DOMAIN reports :
        /\ ~reports[i].deleted /\ ~reports[i].is_flagged
        /\ report_type \notin {NoneStr, "", "all"} => reports[i].report_type = report_type
        /\ q \notin {NoneText, <<>>} =>
              \/ Contains(reports[i].message_content, q)
              \/ Contains(reports[i].source_from, q)
              \/ Contains(reports[i].subject, q) }

\* C18: the public search returns reports that are visible, of the type asked
\* for and holding q in message, source or subject; it returns them latest
\* first, each once, all of them up to 200; and a report it leaves out was
\* created no later than any of the 200 it returns.
C18_SearchReturnsFirstMatches ==
    request.handler = "search_page" =>
        LET expected == SearchExpected(request.q, request.report_type)
            rows == response.reports
            listed == {rows[i].id : i \in DOMAIN rows}
        IN /\ listed \subseteq expected
           /\ Len(rows) = Min(Cardinality(expected), SearchLimit)
           /\ Cardinality(listed) = Len(rows)
           /\ \A i \in DOMAIN rows :
                 i < Len(rows) => rows[i].created_on >= rows[i + 1].created_on
           /\ \A e \in expected \ listed :
                 /\ Len(rows) = SearchLimit
                 /\ reports[e].created_on <= rows[Len(rows)].created_on

\* A search over more than 200 visible reports returned 200 and left the
\* earliest ones out.
C18_Witness ==
    /\ request.handler = "search_page"
    /\ request.q = NoneText
    /\ Len(response.reports) = SearchLimit
    /\ \E e \in SearchExpected(request.q, request.report_type) :
          \A i \in DOMAIN response.reports : response.reports[i].id # e

\* ---------------------------------------------------------------- C19
\* C19: a step that inserts an attachment row inserts it for a report that
\* exists and is not deleted when the row is inserted.
C19_NoAttachmentForDeletedReport ==
    [][ Len(attachments') > Len(attachments) =>
          LET target == attachments'[Len(attachments')].report_id IN
          /\ target \in DOMAIN reports
          /\ ~reports[target].deleted ]_vars

\* ---------------------------------------------------------------- C20
\* What C20 says of the row stored for a form at time t.
StoredAsSubmitted(form, r, t) ==
    /\ r.deleted = FALSE /\ r.is_flagged = FALSE /\ r.is_verified = FALSE
    /\ r.classification = "unclassified"
    /\ r.suggested_classification = "unclassified"
    /\ r.created_on = t /\ r.updated_on = t
    /\ r.source_from # <<>> /\ (form.source_from = <<>> => r.source_from = NoneText)
    /\ r.subject # <<>> /\ (form.subject = <<>> => r.subject = NoneText)
    /\ r.reporter_name # "" /\ (form.reporter_name = "" => r.reporter_name = NoneStr)
    /\ r.reporter_contact # ""
    /\ form.reporter_contact = "" => r.reporter_contact = NoneStr
    /\ form.received_at \in {"", "yesterday"} => r.received_at = NoTime

\* C20: the row submit_report stores is not deleted, not flagged, not
\* verified, 'unclassified' twice, created and updated at the time of the
\* request, and holds an optional field that was left empty, or a received_at
\* that is no timestamp, as absent.
C20_SubmittedReportDefaults ==
    [][ \A form \in SubmitForms, with_file \in BOOLEAN :
          submit_report(form, with_file)
              => StoredAsSubmitted(form, reports'[Len(reports')], now) ]_vars

\* A report posted at time 1 with every optional field left empty (or a
\* received_at that is no timestamp) is stored with all of them absent.
C20_Witness ==
    /\ request.handler = "submit_report"
    /\ reports # <<>>
    /\ LET r == reports[Len(reports)] IN
          /\ r.created_on = 1 /\ r.updated_on = 1
          /\ r.source_from = NoneText /\ r.subject = NoneText
          /\ r.reporter_name = NoneStr /\ r.reporter_contact = NoneStr
          /\ r.received_at = NoTime

\* ---------------------------------------------------------------- C21
\* The content of a report.
ContentColumns ==
    { "report_type", "source_from", "subject", "message_content", "received_at",
      "reporter_name", "reporter_contact", "received_at_tz", "contain_link",
      "ocr_preview" }

\* The columns flag and unflag are to leave alone, and those delete is.
FlagFrame == ContentColumns \cup {"deleted", "is_verified", "classification"}
DeleteFrame ==
    {"is_flagged", "flag_reason", "flagged_on", "flagged_by", "is_verified",
     "classification"}

\* C21: an admin action changes no report other than its target; flag and
\* unflag leave deleted, is_verified, classification and the content of the
\* target as they were; delete leaves its flag columns, is_verified and
\* classification as they were; an action of any other name leaves the whole
\* row as it was.
C21_ModerationFlagsIndependent ==
    [][ AdminActionStep =>
          /\ DOMAIN reports' = DOMAIN reports
          /\ \A id \in DOMAIN reports :
                LET before == reports[id]
                    after == reports'[id]
                    action == request'.action
                IN /\ id # request'.report_id => after = before
                   /\ action \in {"flag", "unflag"} =>
                         \A c \in FlagFrame : after[c] = before[c]
                   /\ action = "delete" =>
                         \A c \in DeleteFrame : after[c] = before[c]
                   /\ action \notin {"flag", "unflag", "delete"} => after = before ]_vars

\* A flagged report was deleted next to another report: it is deleted and
\* still holds its flag and reason.
C21_Witness ==
    /\ request.handler = "admin_action"
    /\ request.action = "delete"
    /\ Len(reports) = 2
    /\ request.report_id \in DOMAIN reports
    /\ reports[request.report_id].deleted
    /\ reports[request.report_id].is_flagged
    /\ reports[request.report_id].flag_reason = "phishing"

\* ---------------------------------------------------------------- C22
\* The reports an admin listing for status, show_deleted and q is to count.
AdminMatching(status, show_deleted, q) ==
    { i \in AdminExpected(status, show_deleted) :
        q # <<>> => \/ Contains(reports[i].message_content, q)
                    \/ Contains(reports[i].source_from, q)
                    \/ Contains(reports[i].subject, q) }

\* ceil(n / d)
CeilDiv(n, d) == CHOOSE c \in 0..n : c * d >= n /\ (c = 0 \/ (c - 1) * d < n)

\* The listing served by this step is the page it is to be: the page number
\* is the requested one or 1 when that is below 1, total counts the matching
\* reports, total_pages = max(ceil(total / 25), 1), and the page holds the
\* rows of ranks 25 (page - 1) + 1 .. 25 page of the matching reports, latest
\* first (none when there are no such ranks).
PageAsPaginated ==
    LET expected == AdminMatching(request'.status, request'.show_deleted, request'.q)
        total == Cardinality(expected)
        rows == response'.reports
        first == PageSize * (response'.page - 1)
    IN /\ response'.page = (IF request'.page < 1 THEN 1 ELSE request'.page)
       /\ response'.total = total
       /\ response'.total_pages = Max(CeilDiv(total, PageSize), 1)
       /\ Len(rows) <= PageSize
       /\ Len(rows) = Min(PageSize, Max(total - first, 0))
       /\ response'.page > response'.total_pages => rows = <<>>
       /\ \A k \in DOMAIN rows :
             /\ rows[k].id \in expected
             /\ k < Len(rows) => rows[k].created_on >= rows[k + 1].created_on
             /\ Cardinality({e \in expected :
                    reports[e].created_on > rows[k].created_on}) <= first + k - 1
             /\ Cardinality({e \in expected :
                    reports[e].created_on >= rows[k].created_on}) >= first + k

\* The listing served by this step and the one served before it are two
\* pages of one listing.
PagesOfOneListing ==
    /\ request.handler = "admin_page"
    /\ request'.status = request.status
    /\ request'.show_deleted = request.show_deleted
    /\ request'.q = request.q
    /\ reports' = reports
    /\ response'.page # response.page

\* C22: over an unchanged set of reports every admin listing is the page
\* asked for (page 1 for a number below 1), of at most 25 reports, with total
\* and total_pages = max(ceil(total / 25), 1), and two different pages of one
\* listing share no report, so that pages 1..total_pages hold every matching
\* report exactly once, latest first, and a page beyond them is empty.
C22_PagesHoldEveryReportOnce ==
    [][ request'.handler = "admin_page" =>
          /\ PageAsPaginated
          /\ PagesOfOneListing =>
                \A i \in DOMAIN response.reports, j \in DOMAIN response'.reports :
                    response.reports[i].id # response'.reports[j].id ]_vars

\* ---------------------------------------------------------------- C23
\* The tokens of the batch `rows`, as <<place in the batch, place in the
\* text>>, that are the url of a row `links` holds for their report.
AlreadyRecorded(rows, links) ==
    { p \in UNION { {<<n, k>> : k \in DOMAIN extract_urls(RowText(reports[rows[n]]))} :
                    n \in DOMAIN rows } :
        \E l \in DOMAIN links :
            /\ links[l].report_id = rows[p[1]]
            /\ links[l].url = extract_urls(RowText(reports[rows[p[1]]]))[p[2]] }

\* C23: whether or not the store refuses a read or an insert of the run, the
\* inserted count of a run is the number of rows the run added to
\* report_links, its skipped count is the number of tokens of its batch that
\* had a link row when the run began, and no row it adds repeats the report
\* and url of a row recorded before the run.
C23_CountsAreWhatTheRunStored ==
    [][ extraction'.n = extraction.n + 1 =>
          /\ extraction'.inserted = Len(report_links') - Len(report_links)
          /\ extraction'.skipped =
                Cardinality(AlreadyRecorded(extraction'.rows, report_links))
          /\ \A a \in (Len(report_links) + 1)..Len(report_links') :
                \A l \in DOMAIN report_links :
                    ~ /\ report_links[l].report_id = report_links'[a].report_id
                      /\ report_links[l].url = report_links'[a].url ]_vars

\* ---------------------------------------------------------------- C24
\* C24: when two extraction runs started at any time have both ended, every
\* URL of every report of their batches is recorded exactly once for that
\* report, and the inserted counts of the two runs sum to the number of rows
\* report_links gained since the first of them began.
C24_ParallelRunsRecordEachUrlOnce ==
    (\A s \in RunSessions : runs[s].pc = "done") =>
        /\ \A s \in RunSessions : \A n \in DOMAIN runs[s].rows :
              LET rid == runs[s].rows[n]
                  urls == extract_urls(RowText(reports[rid]))
              IN \A k \in DOMAIN urls :
                    Cardinality({l \in DOMAIN report_links :
                                    /\ report_links[l].report_id = rid
                                    /\ report_links[l].url = urls[k]}) = 1
        /\ runs[1].inserted + runs[2].inserted =
              Len(report_links) - Min(runs[1].links_before, runs[2].links_before)

====
